---- MODULE Spec2Model ----
(***************************************************************************)
(* A model of the pyleob 2D engine (src/pyleob/pyleob.py): the two         *)
(* registries of Game2D, its collision-layer buckets, the deferred-removal *)
(* queue and the frame loop of Game2D.run.  Game objects are the numbers   *)
(* 1..NumObjs; the drawable owned by game object o carries the same        *)
(* number.  The abstract handlers (GameObject.update, on_collision, the    *)
(* three game hooks) are modelled by what they may do to the engine: call  *)
(* add_game_object, call remove_game_object, move their own drawable, or   *)
(* nothing.                                                                *)
(***************************************************************************)
EXTENDS Integers, Sequences, FiniteSets, TLC

\* ------------------------------------------------------------------ bounds
NumObjs == 3
MaxSetup == 3
MaxOps == 1
MaxCoord == 2

\* ------------------------------------------------------- program constants
COLLISION_MATRIX_DEPTH == 8

Objs == 1..NumObjs
NoObj == 0

VARIABLES
    collisionMatrix,              \* the rows handed to Game2D.__init__
    collision_matrix,             \* Game2D.collision_matrix (after padding)
    collision_layer,              \* GameObject._collision_layer, per object
    pos,                          \* Drawable._pos of each object's drawable
    size,                         \* Drawable._size of each object's drawable
    active,                       \* Component._active of each game object
    drawable_active,              \* Component._active of each owned drawable
    entities,                     \* Game2D.entities
    drawables,                    \* Game2D.drawables
    entities_by_collision_layer,  \* Game2D.entities_by_collision_layer (dict)
    game_objects_to_remove,       \* Game2D.game_objects_to_remove
    loop,                         \* local `loop` of Game2D.run
    pc,                           \* position inside run / __main_update / __main_draw
    idx,                          \* iterator position of `for entity in self.entities`
    cur,                          \* loop variables of calculate_collisions
    calls,                        \* the calls the engine made in the current frame
    api,                          \* the engine method called by the last step's handler
    requested,                    \* objects whose removal was requested in this frame before its flush
    spawned,                      \* objects added during this frame's collision sweep
    joined,                       \* entity-list positions appended during this frame's update pass
    hit,                          \* results of the Rect.intersects calls made on the rects of objects (second element of a pair: the argument)
    bricks,                       \* Breakton.bricks
    balls,                        \* Breakton.balls
    killed,                       \* the balls ball_death was called for, in the order of the calls
    keys,                         \* local `keys` of __main_update: which get_pressed() result of the frame it holds (0: none)
    ops                           \* number of effects handlers had so far

vars == <<collisionMatrix, collision_matrix, collision_layer, pos, size, active, drawable_active,
          entities, drawables, entities_by_collision_layer,
          game_objects_to_remove, loop, pc, idx, cur, calls, api, requested, spawned, joined, keys, hit, bricks, balls, killed, ops>>

config == <<collisionMatrix, collision_matrix, collision_layer, size>>

\* ------------------------------------------------------------- sequences
RECURSIVE IndexOf(_, _, _)
IndexOf(s, x, k) ==
    IF k > Len(s) THEN 0
    ELSE IF s[k] = x THEN k
    ELSE IndexOf(s, x, k + 1)

InSeq(s, x) == \E k \in 1..Len(s) : s[k] = x

Count(s, x) == Cardinality({k \in 1..Len(s) : s[k] = x})

\* list.remove(x): deletes the first element equal to x
ListRemove(s, x) ==
    LET k == IndexOf(s, x, 1)
    IN  [n \in 1..(Len(s) - 1) |-> IF n < k THEN s[n] ELSE s[n + 1]]

IsPrefix(s, t) == Len(s) <= Len(t) /\ \A k \in 1..Len(s) : s[k] = t[k]

\* ---------------------------------------------------------------- Rect
Vector2(x, y) == [x |-> x, y |-> y]

Rect(p, sz) == [pos |-> p, size |-> sz]

left(r) == r.pos.x
right(r) == r.pos.x + r.size.x
top(r) == r.pos.y
bottom(r) == r.pos.y + r.size.y

intersects_closed(a, b) ==
    left(a) <= right(b) /\ right(a) >= left(b) /\
    top(a) <= bottom(b) /\ bottom(a) >= top(b)

\* a test that is strict on one side only
intersects_half_open(a, b) ==
    left(a) <= right(b) /\ right(a) > left(b) /\
    top(a) <= bottom(b) /\ bottom(a) > top(b)

intersects(a, b) ==
    left(a) < right(b) /\ right(a) > left(b) /\
    top(a) < bottom(b) /\ bottom(a) > top(b)

\* a drawable's get_rect / a game object's get_collider
get_collider(G, o) == Rect(G.pos[o], size[o])

\* ------------------------------------------------------ collision matrix
PadMatrix_one_short(m) ==
    IF COLLISION_MATRIX_DEPTH - Len(m) > 0
    THEN m \o [k \in 1..(COLLISION_MATRIX_DEPTH - Len(m) - 1) |-> 0]
    ELSE m

\* Game2D.__init__: a matrix shorter than the depth is filled with zeroes
PadMatrix(m) ==
    IF COLLISION_MATRIX_DEPTH - Len(m) > 0
    THEN m \o [k \in 1..(COLLISION_MATRIX_DEPTH - Len(m)) |-> 0]
    ELSE m

RECURSIVE BitAnd(_, _)
BitAnd(a, b) ==
    IF a = 0 \/ b = 0 THEN 0
    ELSE (a % 2) * (b % 2) + 2 * BitAnd(a \div 2, b \div 2)

get_mask_value_for_layer_shifted(layer) == 2 ^ (layer + 1)

get_mask_value_for_layer(layer) == 2 ^ layer

\* `row & (mask != 0)`, the reading of a language where != binds tighter
collision_enabled_between_layers_precedence(layer1, layer2) ==
    BitAnd(collision_matrix[layer1 + 1],
           IF get_mask_value_for_layer(layer2) # 0 THEN 1 ELSE 0) # 0

collision_enabled_between_layers_swapped(layer1, layer2) ==
    BitAnd(collision_matrix[layer2 + 1], get_mask_value_for_layer(layer1)) # 0

collision_enabled_between_layers(layer1, layer2) ==
    BitAnd(collision_matrix[layer1 + 1], get_mask_value_for_layer(layer2)) # 0

\* ------------------------------------------------- the engine's registries
\* The mutable part of a Game2D and of its objects, as one record, so that
\* the engine's methods are operators from record to record.
Engine ==
    [entities |-> entities,
     drawables |-> drawables,
     entities_by_collision_layer |-> entities_by_collision_layer,
     game_objects_to_remove |-> game_objects_to_remove,
     active |-> active,
     drawable_active |-> drawable_active,
     pos |-> pos,
     raised |-> FALSE]

SetEngine(G) ==
    /\ entities' = G.entities
    /\ drawables' = G.drawables
    /\ entities_by_collision_layer' = G.entities_by_collision_layer
    /\ game_objects_to_remove' = G.game_objects_to_remove
    /\ active' = G.active
    /\ drawable_active' = G.drawable_active
    /\ pos' = G.pos

\* Component.set_active
Component_set_active(G, o, val) == [G EXCEPT !.active[o] = val]

set_active_object_only(G, o, val) == [G EXCEPT !.active[o] = val]

\* GameObject.set_active: also propagates to the owned drawable
set_active(G, o, val) ==
    [Component_set_active(G, o, val) EXCEPT !.drawable_active[o] = val]

add_entity(G, e) == [G EXCEPT !.entities = Append(@, e)]

add_drawable(G, d) == [G EXCEPT !.drawables = Append(@, d)]

remove_entity(G, e) ==
    IF InSeq(G.entities, e)
    THEN [G EXCEPT !.entities = ListRemove(@, e)]
    ELSE G

remove_drawable(G, d) ==
    IF InSeq(G.drawables, d)
    THEN [G EXCEPT !.drawables = ListRemove(@, d)]
    ELSE G

\* Game2D.__add_game_object_to_collision_layer
add_to_layer(G, o, layer) ==
    LET ebl == G.entities_by_collision_layer
        had == IF layer \in DOMAIN ebl THEN ebl[layer] ELSE <<>>
    IN  [G EXCEPT !.entities_by_collision_layer =
            [l \in (DOMAIN ebl) \cup {layer} |->
                IF l = layer THEN Append(had, o) ELSE ebl[l]]]

add_game_object_to_collision_layer_always(G, o) ==
    add_to_layer(G, o, collision_layer[o])

add_game_object_to_collision_layer(G, o) ==
    IF collision_layer[o] >= 0
    THEN add_to_layer(G, o, collision_layer[o])
    ELSE G

\* self.entities_by_collision_layer[layer] raises KeyError when no object of
\* that layer was ever added
remove_game_object_from_collision_layer(G, o) ==
    LET ebl == G.entities_by_collision_layer
        layer == collision_layer[o]
    IN  IF layer >= 0
        THEN IF layer \notin DOMAIN ebl
             THEN [G EXCEPT !.raised = TRUE]
             ELSE IF InSeq(ebl[layer], o)
                  THEN [G EXCEPT !.entities_by_collision_layer[layer] =
                                      ListRemove(@, o)]
                  ELSE G
        ELSE G

add_game_object_no_drawable(G, o) ==
    add_game_object_to_collision_layer(add_entity(G, o), o)

add_game_object(G, o) ==
    add_game_object_to_collision_layer(add_drawable(add_entity(G, o), o), o)

remove_game_object_now_keeps_bucket(G, o) ==
    remove_entity(remove_drawable(G, o), o)

remove_game_object_now(G, o) ==
    remove_game_object_from_collision_layer(
        remove_entity(remove_drawable(G, o), o), o)

remove_game_object_eager(G, o) ==
    remove_game_object_now(set_active(G, o, FALSE), o)

\* a request that queues the object and leaves it active
remove_game_object_keeps_active(G, o) ==
    [G EXCEPT !.game_objects_to_remove = Append(@, o)]

remove_game_object(G, o) ==
    [set_active(G, o, FALSE) EXCEPT
        !.game_objects_to_remove = Append(@, o)]

get_entities_by_collision_layer(G, layer) ==
    IF layer \in DOMAIN G.entities_by_collision_layer
    THEN G.entities_by_collision_layer[layer]
    ELSE <<>>

\* the tail of __main_update: unregister every queued object, then empty the
\* queue; an exception leaves the loop and the queue as they are
RECURSIVE FlushFrom(_, _)
FlushFrom(G, k) ==
    IF G.raised \/ k > Len(G.game_objects_to_remove) THEN G
    ELSE FlushFrom(remove_game_object_now(G, G.game_objects_to_remove[k]), k + 1)

\* a flush that leaves the processed entries in the queue
FlushQueue_keeps_queue(G) == FlushFrom(G, 1)

FlushQueue(G) ==
    LET H == FlushFrom(G, 1)
    IN  IF H.raised THEN H ELSE [H EXCEPT !.game_objects_to_remove = <<>>]

\* ------------------------------------------------------------ paint order
\* list.sort(key=Drawable.sort_key_y): a stable sort by ascending pos.y
sort_key_y(G, d) == G.pos[d].y

RECURSIVE InsertByKey(_, _, _)
InsertByKey(G, s, d) ==
    IF s = <<>> THEN <<d>>
    ELSE IF sort_key_y(G, s[Len(s)]) <= sort_key_y(G, d) THEN Append(s, d)
    ELSE Append(InsertByKey(G, SubSeq(s, 1, Len(s) - 1), d), s[Len(s)])

RECURSIVE SortFrom(_, _, _)
SortFrom(G, s, k) ==
    IF k > Len(G.drawables) THEN s
    ELSE SortFrom(G, InsertByKey(G, s, G.drawables[k]), k + 1)

SortDrawables_unsorted(G) == G

SortDrawables(G) == [G EXCEPT !.drawables = SortFrom(G, <<>>, 1)]

\* ------------------------------------------------------------- call log
\* One entry per call the engine makes: the method, the object it is called
\* on, its argument (on_collision), the position of the object in the list
\* that is iterated (update, draw), and the active flags of the object and
\* of the argument when the call is made, and the keyboard snapshot the call
\* is handed (early_update, update, late_update; 0 for the other calls).
Call(kind, self, other, at, act, oact) ==
    [kind |-> kind, self |-> self, other |-> other, at |-> at,
     act |-> act, oact |-> oact, keys |-> 0]

\* a call that is handed the keyboard snapshot k
InputCall(call, k) == [call EXCEPT !.keys = k]

HookCall(kind) == Call(kind, NoObj, NoObj, 0, TRUE, TRUE)

RECURSIVE DrawCalls(_, _)
DrawCalls(G, k) ==
    IF k > Len(G.drawables) THEN <<>>
    ELSE (IF G.drawable_active[G.drawables[k]]
          THEN <<Call("draw", G.drawables[k], NoObj, k, G.drawable_active[G.drawables[k]], TRUE)>>
          ELSE <<>>) \o DrawCalls(G, k + 1)

\* ------------------------------------------------------------- handlers
\* What a handler of the game (an update, an on_collision, a hook) does to
\* the engine: nothing, one add_game_object, one remove_game_object, or (an
\* update only) a move of the object's own drawable.
NoPos == Vector2(0 - 1, 0 - 1)

Effect(op, o, to) == [op |-> op, obj |-> o, to |-> to]

\* an update moves its object one step to the right, inside the playfield
Step(p) == Vector2(IF p.x < MaxCoord THEN p.x + 1 ELSE p.x, p.y)

\* the object the handlers spawn (a new one, or one that is registered
\* already)
Spawnable == {NumObjs}

Adds == IF ops < MaxOps THEN {Effect("add", o, NoPos) : o \in Spawnable} ELSE {}

Removes(S) == IF ops < MaxOps THEN {Effect("remove", o, NoPos) : o \in S} ELSE {}

Nothing == Effect("none", NoObj, NoPos)

\* a hook of the game reaches every object
HookEffects == {Nothing} \cup Adds \cup Removes(Objs)

\* an on_collision spawns an object or removes itself or the other object
CollisionEffects(self, other) == {Nothing} \cup Adds \cup Removes({self, other})

\* an update spawns an object, removes its own object or moves it
UpdateEffects(self) ==
    {Nothing} \cup Adds \cup Removes({self}) \cup
    (IF ops < MaxOps /\ Step(pos[self]) # pos[self]
     THEN {Effect("move", self, Step(pos[self]))}
     ELSE {})

ApplyEffect(G, e) ==
    CASE e.op = "add" -> add_game_object(G, e.obj)
      [] e.op = "remove" -> remove_game_object(G, e.obj)
      [] e.op = "move" -> [G EXCEPT !.pos[e.obj] = e.to]
      [] OTHER -> G

\* the engine method a handler called, if any
NoCall == [op |-> "none", obj |-> NoObj]

ApiOf(e) ==
    IF e.op \in {"add", "remove"} THEN [op |-> e.op, obj |-> e.obj] ELSE NoCall

Cost(e) == IF e.op = "none" THEN 0 ELSE 1

\* a handler runs: the call is logged and its effect applied
Handle(call, e) ==
    /\ calls' = Append(calls, call)
    /\ SetEngine(ApplyEffect(Engine, e))
    /\ api' = ApiOf(e)
    /\ ops' = ops + Cost(e)
    /\ requested' = IF e.op = "remove" /\ pc # "draw"
                     THEN requested \cup {e.obj} ELSE requested
    /\ spawned' = IF e.op = "add" /\ pc \in {"sweep", "sweep2"}
                   THEN spawned \cup {e.obj} ELSE spawned
    /\ joined' = IF e.op = "add" /\ pc = "update"
                  THEN joined \cup {Len(entities) + 1} ELSE joined

\* ------------------------------------------------- calculate_collisions
\* `for j in range(i, COLLISION_MATRIX_DEPTH)`: the first column of row i
FirstColumn_zero(i) == 0

FirstColumn(i) == i

Collides_active_only(G, ob1, ob2) ==
    /\ ob1 # ob2 /\ G.active[ob1] /\ G.active[ob2]
    /\ intersects(get_collider(G, ob1), get_collider(G, ob2))

\* a test that lets an object meet itself
Collides_with_self(G, ob1, ob2) ==
    intersects(get_collider(G, ob1), get_collider(G, ob2))

\* the test of the innermost loop body
Collides(G, ob1, ob2) ==
    ob1 # ob2 /\ intersects(get_collider(G, ob1), get_collider(G, ob2))

Cursor(i, j, k1, k2) ==
    [i |-> i, j |-> j, k1 |-> k1, k2 |-> k2, ob1 |-> NoObj, ob2 |-> NoObj]

SweepDone == Cursor(COLLISION_MATRIX_DEPTH, COLLISION_MATRIX_DEPTH, 1, 1)

SweepStart == Cursor(0, FirstColumn(0), 1, 1)

\* The four nested loops, advanced from position c to the next position at
\* which the innermost body runs (or to SweepDone).  A Python list iterator
\* compares its index with the list's current length, so objects appended to
\* a bucket while it is iterated are reached.  A layer without a bucket
\* yields a fresh empty list; no handler runs while it is iterated, so
\* reading the bucket again at each step gives the same iterations.
RECURSIVE NextBody(_, _)
NextBody(G, c) ==
    IF c.i >= COLLISION_MATRIX_DEPTH THEN SweepDone
    ELSE IF c.j >= COLLISION_MATRIX_DEPTH
         THEN NextBody(G, Cursor(c.i + 1, FirstColumn(c.i + 1), 1, 1))
    ELSE IF ~collision_enabled_between_layers(c.i, c.j)
         THEN NextBody(G, Cursor(c.i, c.j + 1, 1, 1))
    ELSE LET layer1 == get_entities_by_collision_layer(G, c.i)
             layer2 == get_entities_by_collision_layer(G, c.j)
         IN  IF c.k1 > Len(layer1)
             THEN NextBody(G, Cursor(c.i, c.j + 1, 1, 1))
             ELSE IF c.k2 > Len(layer2)
                  THEN NextBody(G, Cursor(c.i, c.j, c.k1 + 1, 1))
                  ELSE [c EXCEPT !.ob1 = layer1[c.k1], !.ob2 = layer2[c.k2]]

Advance(c) == Cursor(c.i, c.j, c.k1, c.k2 + 1)

\* ------------------------------------------------------- configurations
\* A game: the matrix it hands to Game2D.__init__, the layer each of its
\* objects is constructed with, and where the objects start.
Game(m, layers, places) == [matrix |-> m, layer |-> layers, pos |-> places]

Together == <<Vector2(0, 0), Vector2(0, 0), Vector2(0, 0)>>
Chain == <<Vector2(0, 1), Vector2(1, 0), Vector2(2, 1)>>

Games ==
    {Game(<<6, 9>>, <<0, 1, 2>>, Together),
     Game(<<2>>, <<1, 0, 0>>, Chain),
     Game(<<2, 0, 0, 0, 0, 0, 0, 0>>, <<1, 0, 0>>, Chain),
     Game(<<1, 1>>, <<0, 0, 1>>, Chain),
     Game(<<12, 0>>, <<0, 2, 3>>, Together),
     Game(<<3, 1, 0, 0, 0, 0, 0, 128>>, <<7, 7, 0 - 1>>, Together),
     Game(<<>>, <<0, 1, 8>>, Together)}

\* the k-th object of a game that lists fewer objects is built like the last
\* one listed
Nth(s, o) == s[IF o <= Len(s) THEN o ELSE Len(s)]

ObjSize == 2

Init ==
    /\ \E g \in Games :
         /\ collisionMatrix = g.matrix
         /\ collision_matrix = PadMatrix(g.matrix)
         /\ collision_layer = [o \in Objs |-> Nth(g.layer, o)]
         /\ pos = [o \in Objs |-> Nth(g.pos, o)]
    /\ size = [o \in Objs |-> Vector2(ObjSize, ObjSize)]
    /\ active = [o \in Objs |-> TRUE]
    /\ drawable_active = [o \in Objs |-> TRUE]
    /\ entities = <<>>
    /\ drawables = <<>>
    /\ entities_by_collision_layer = [l \in {} |-> <<>>]
    /\ game_objects_to_remove = <<>>
    /\ loop = TRUE
    /\ pc = "idle"
    /\ idx = 1
    /\ cur = SweepDone
    /\ calls = <<>>
    /\ api = NoCall
    /\ requested = {}
    /\ spawned = {}
    /\ joined = {}
    /\ keys = 0
    /\ hit = {}
    /\ bricks = <<>>
    /\ balls = <<>>
    /\ killed = <<>>
    /\ ops = 0

\* ---------------------------------------------------------------- actions
\* The statement order of __main_update followed by __main_draw: the phase
\* that follows each phase of a frame.
AfterPhase_flush_first(p) ==
    CASE p = "early" -> "update"
      [] p = "update" -> "sweep"
      [] p = "sweep" -> "flush"
      [] p = "flush" -> "late"
      [] p = "late" -> "draw"
      [] p = "draw" -> "render"
      [] p = "render" -> "tick"

AfterPhase(p) ==
    CASE p = "early" -> "update"
      [] p = "update" -> "sweep"
      [] p = "sweep" -> "late"
      [] p = "late" -> "flush"
      [] p = "flush" -> "draw"
      [] p = "draw" -> "render"
      [] p = "render" -> "tick"

\* the game's constructor registers game objects before run() is called:
\* object 1, possibly a second time right away, then the next objects in turn
Construct(o) ==
    /\ pc = "idle"
    /\ Len(entities) < MaxSetup
    /\ IF entities = <<>> THEN o = 1
       ELSE o \in {entities[Len(entities)] + 1} \cup
                  (IF Len(entities) = 1 THEN {1} ELSE {})
    /\ SetEngine(add_game_object(Engine, o))
    /\ api' = [op |-> "add", obj |-> o]
    /\ UNCHANGED <<config, balls, killed, bricks, hit, keys, loop, pc, idx, cur, calls, requested, spawned, joined, ops>>

Run ==
    /\ pc = "idle"
    /\ pc' = "poll"
    /\ UNCHANGED <<config, balls, killed, bricks, hit, keys, pos, active, drawable_active, entities, drawables,
                   entities_by_collision_layer, game_objects_to_remove,
                   loop, idx, cur, calls, ops>>
    /\ api' = NoCall
    /\ UNCHANGED <<requested, spawned, joined>>

\* a QUIT that leaves the loop at once
PollEvents_break(quit) ==
    /\ pc = "poll"
    /\ loop' = IF quit THEN FALSE ELSE loop
    /\ pc' = IF quit THEN "stopped" ELSE "early"
    /\ calls' = <<>>
    /\ UNCHANGED <<config, balls, killed, bricks, hit, pos, active, drawable_active, entities, drawables,
                   entities_by_collision_layer, game_objects_to_remove,
                   idx, cur, ops>>
    /\ api' = NoCall
    /\ requested' = {}
    /\ spawned' = {}
    /\ joined' = {}
    /\ keys' = 0

\* top of the while loop: the event queue is read, a QUIT clears `loop`
PollEvents(quit) ==
    /\ pc = "poll"
    /\ loop' = IF quit THEN FALSE ELSE loop
    /\ pc' = "early"
    /\ calls' = <<>>
    /\ UNCHANGED <<config, balls, killed, bricks, hit, pos, active, drawable_active, entities, drawables,
                   entities_by_collision_layer, game_objects_to_remove,
                   idx, cur, ops>>
    /\ api' = NoCall
    /\ requested' = {}
    /\ spawned' = {}
    /\ joined' = {}
    /\ keys' = 0

\* pygame.key.get_pressed(): every call returns a new snapshot of the
\* keyboard; a snapshot is named by its place among the calls of the frame
get_pressed == keys + 1

\* __main_update: `keys = pygame.key.get_pressed()`, then early_update
EarlyUpdate(e) ==
    /\ pc = "early"
    /\ keys' = get_pressed
    /\ Handle(InputCall(HookCall("early_update"), get_pressed), e)
    /\ pc' = AfterPhase("early")
    /\ idx' = 1
    /\ UNCHANGED <<config, balls, killed, bricks, hit, loop, cur>>

\* a pass over a copy of the list made when the pass began
PassLength_snapshot == Len(entities) - Cardinality(joined)

\* `for entity in self.entities`: the iterator ends when its index reaches
\* the length the list has then
PassLength == Len(entities)

\* an update that reads the keyboard again
UpdateKeys_fresh == get_pressed

\* `entity.update(elapsedtime, keys)`: the snapshot an update is given
UpdateKeys == keys

UpdateEntity ==
    /\ pc = "update"
    /\ idx <= PassLength
    /\ active[entities[idx]]
    /\ keys' = UpdateKeys
    /\ \E e \in UpdateEffects(entities[idx]) :
         Handle(InputCall(Call("update", entities[idx], NoObj, idx, active[entities[idx]], TRUE),
                          UpdateKeys), e)
    /\ idx' = idx + 1
    /\ UNCHANGED <<config, balls, killed, bricks, hit, loop, pc, cur>>

SkipEntity ==
    /\ pc = "update"
    /\ idx <= PassLength
    /\ ~active[entities[idx]]
    /\ idx' = idx + 1
    /\ UNCHANGED <<config, balls, killed, bricks, hit, keys, pos, active, drawable_active, entities, drawables,
                   entities_by_collision_layer, game_objects_to_remove,
                   loop, pc, cur, calls, ops>>
    /\ api' = NoCall
    /\ UNCHANGED <<requested, spawned, joined>>

BeginSweep ==
    /\ pc = "update"
    /\ idx > PassLength
    /\ pc' = AfterPhase("update")
    /\ cur' = NextBody(Engine, SweepStart)
    /\ UNCHANGED <<config, balls, killed, bricks, hit, keys, pos, active, drawable_active, entities, drawables,
                   entities_by_collision_layer, game_objects_to_remove,
                   loop, idx, calls, ops>>
    /\ api' = NoCall
    /\ UNCHANGED <<requested, spawned, joined>>

CollisionMiss ==
    /\ pc = "sweep"
    /\ cur # SweepDone
    /\ ~Collides(Engine, cur.ob1, cur.ob2)
    /\ cur' = NextBody(Engine, Advance(cur))
    /\ UNCHANGED <<config, balls, killed, bricks, hit, keys, pos, active, drawable_active, entities, drawables,
                   entities_by_collision_layer, game_objects_to_remove,
                   loop, pc, idx, calls, ops>>
    /\ api' = NoCall
    /\ UNCHANGED <<requested, spawned, joined>>

\* ob1.on_collision(ob2)
CollisionFirst ==
    /\ pc = "sweep"
    /\ cur # SweepDone
    /\ Collides(Engine, cur.ob1, cur.ob2)
    /\ \E e \in CollisionEffects(cur.ob1, cur.ob2) :
         Handle(Call("on_collision", cur.ob1, cur.ob2, 0,
                     active[cur.ob1], active[cur.ob2]), e)
    /\ pc' = "sweep2"
    /\ UNCHANGED <<config, balls, killed, bricks, hit, keys, loop, idx, cur>>

\* ob2.on_collision(ob1), then the loops advance
CollisionSecond ==
    /\ pc = "sweep2"
    /\ \E e \in CollisionEffects(cur.ob2, cur.ob1) :
         /\ Handle(Call("on_collision", cur.ob2, cur.ob1, 0,
                        active[cur.ob2], active[cur.ob1]), e)
         /\ cur' = NextBody(ApplyEffect(Engine, e), Advance(cur))
    /\ pc' = "sweep"
    /\ UNCHANGED <<config, balls, killed, bricks, hit, keys, loop, idx>>

EndSweep ==
    /\ pc = "sweep"
    /\ cur = SweepDone
    /\ pc' = AfterPhase("sweep")
    /\ UNCHANGED <<config, balls, killed, bricks, hit, keys, pos, active, drawable_active, entities, drawables,
                   entities_by_collision_layer, game_objects_to_remove,
                   loop, idx, cur, calls, ops>>
    /\ api' = NoCall
    /\ UNCHANGED <<requested, spawned, joined>>

LateUpdate(e) ==
    /\ pc = "late"
    /\ Handle(InputCall(HookCall("late_update"), keys), e)
    /\ pc' = AfterPhase("late")
    /\ UNCHANGED <<config, balls, killed, bricks, hit, keys, loop, idx, cur>>

\* the removal flush; a KeyError leaves run() and ends the program
Flush ==
    /\ pc = "flush"
    /\ LET G == FlushQueue(Engine)
       IN  /\ SetEngine(G)
           /\ pc' = IF G.raised THEN "crashed" ELSE AfterPhase("flush")
    /\ calls' = Append(calls, HookCall("flush"))
    /\ UNCHANGED <<config, balls, killed, bricks, hit, keys, loop, idx, cur, ops>>
    /\ api' = NoCall
    /\ UNCHANGED <<requested, spawned, joined>>

\* __main_draw: the game's draw() hook
DrawHook(e) ==
    /\ pc = "draw"
    /\ Handle(HookCall("draw_hook"), e)
    /\ pc' = AfterPhase("draw")
    /\ UNCHANGED <<config, balls, killed, bricks, hit, keys, loop, idx, cur>>

\* __main_draw: sort the drawables, draw the active ones
Render ==
    /\ pc = "render"
    /\ LET G == SortDrawables(Engine)
       IN  /\ SetEngine(G)
           /\ calls' = calls \o DrawCalls(G, 1)
    /\ pc' = AfterPhase("render")
    /\ UNCHANGED <<config, balls, killed, bricks, hit, keys, loop, idx, cur, ops>>
    /\ api' = NoCall
    /\ UNCHANGED <<requested, spawned, joined>>

\* clock.tick, then the loop condition
Tick ==
    /\ pc = "tick"
    /\ pc' = IF loop THEN "poll" ELSE "stopped"
    /\ UNCHANGED <<config, balls, killed, bricks, hit, keys, pos, active, drawable_active, entities, drawables,
                   entities_by_collision_layer, game_objects_to_remove,
                   loop, idx, cur, calls, ops>>
    /\ api' = NoCall
    /\ UNCHANGED <<requested, spawned, joined>>

Next ==
    \/ \E o \in Objs : Construct(o)
    \/ Run
    \/ \E quit \in BOOLEAN : PollEvents(quit)
    \/ \E e \in HookEffects : EarlyUpdate(e)
    \/ UpdateEntity
    \/ SkipEntity
    \/ BeginSweep
    \/ CollisionMiss
    \/ CollisionFirst
    \/ CollisionSecond
    \/ EndSweep
    \/ \E e \in HookEffects : LateUpdate(e)
    \/ Flush
    \/ \E e \in HookEffects : DrawHook(e)
    \/ Render
    \/ Tick

Spec == Init /\ [][Next]_vars

\* ------------------------------------------------ repeated removal requests
\* a late_update that calls remove_game_object(o) twice for the same object
LateUpdateTwice(o) ==
    /\ pc = "late"
    /\ ops < MaxOps
    /\ calls' = Append(calls, InputCall(HookCall("late_update"), keys))
    /\ SetEngine(remove_game_object(remove_game_object(Engine, o), o))
    /\ api' = [op |-> "remove", obj |-> o]
    /\ ops' = ops + 1
    /\ requested' = requested \cup {o}
    /\ pc' = AfterPhase("late")
    /\ UNCHANGED <<config, balls, killed, bricks, hit, keys, loop, idx, cur, spawned, joined>>

NextTwice == Next \/ \E o \in Objs : LateUpdateTwice(o)

SpecTwice == Init /\ [][NextTwice]_vars

\* ---------------------------------------------------------------- Breakton
\* The game of src/breakton on the engine above: balls (layer 0), bricks
\* (layer 2) and a power-up token (layer 3) under the matrix
\* [0b0110, 0b1001].  The state is one between two frames of a running game:
\* the bricks and then the balls were registered (start_game, and
\* spawn_ball_copy for every ball after the first, which puts a copy where
\* the original is), and all of them lie in the row of the bricks, so that
\* no ball reaches the bottom of the playfield.  The paddle takes no part.
TokenObj == NumObjs + 1

BreaktonObjs == Objs \cup {TokenObj}

BreaktonMatrix == <<6, 9>>

IsBall(o) == collision_layer[o] = 0

IsBrick(o) == collision_layer[o] = 2

\* the classes of objects 1, 2, ... of a level, bricks first
Levels == {<<2, 0, 0>>, <<2, 2, 0>>}

Row(xs) == [o \in BreaktonObjs |-> Vector2(xs[o], 0)]

InitBreakton ==
    /\ collisionMatrix = BreaktonMatrix
    /\ collision_matrix = PadMatrix(BreaktonMatrix)
    /\ \E level \in Levels :
         collision_layer = [o \in BreaktonObjs |->
                               IF o = TokenObj THEN 3 ELSE Nth(level, o)]
    /\ \E xs \in [BreaktonObjs -> 0..MaxCoord] :
         /\ \A o \in BreaktonObjs : IsBrick(o) => xs[o] = MaxCoord
         /\ xs[TokenObj] = 0
         /\ pos = Row(xs)
    /\ size = [o \in BreaktonObjs |-> Vector2(ObjSize, ObjSize)]
    /\ active = [o \in BreaktonObjs |-> TRUE]
    /\ drawable_active = [o \in BreaktonObjs |-> TRUE]
    /\ entities = [o \in Objs |-> o]
    /\ drawables = [o \in Objs |-> o]
    /\ entities_by_collision_layer =
         [l \in {0, 2} |-> SelectSeq([o \in Objs |-> o],
                                     LAMBDA o : collision_layer[o] = l)]
    /\ bricks = SelectSeq([o \in Objs |-> o], IsBrick)
    /\ balls = SelectSeq([o \in Objs |-> o], IsBall)
    /\ killed = <<>>
    /\ game_objects_to_remove = <<>>
    /\ loop = TRUE
    /\ pc = "idle"
    /\ idx = 1
    /\ cur = SweepDone
    /\ calls = <<>>
    /\ api = NoCall
    /\ requested = {}
    /\ spawned = {}
    /\ joined = {}
    /\ keys = 0
    /\ hit = {}
    /\ ops = 0

\* Ball.update: the ball moves with its velocity and is kept inside the
\* playfield; seen along the row it stays or goes one step left or right
BallMoves(p) ==
    {p, Step(p), Vector2(IF p.x > 0 THEN p.x - 1 ELSE p.x, p.y)}

\* PowerUpToken.update: the token falls
Fall(p) == Vector2(p.x, IF p.y < MaxCoord THEN p.y + 1 ELSE p.y)

\* the places an update can take its object to (Brick.update does nothing)
UpdateMoves(o) ==
    IF IsBall(o) THEN BallMoves(pos[o])
    ELSE IF o = TokenObj THEN {Fall(pos[o])}
    ELSE {pos[o]}

\* one step of `for entity in self.entities` in a Breakton frame
BreaktonUpdate ==
    /\ pc = "update"
    /\ idx <= PassLength
    /\ LET o == entities[idx]
       IN  IF active[o]
           THEN /\ \E to \in UpdateMoves(o) : pos' = [pos EXCEPT ![o] = to]
                /\ calls' = Append(calls,
                       InputCall(Call("update", o, NoObj, idx, active[o], TRUE), keys))
           ELSE UNCHANGED <<pos, calls>>
    /\ idx' = idx + 1
    /\ api' = NoCall
    /\ UNCHANGED <<config, balls, killed, bricks, hit, keys, active, drawable_active, entities,
                   drawables, entities_by_collision_layer,
                   game_objects_to_remove, loop, pc, cur, requested, spawned,
                   joined, ops>>

\* Breakton.spawn_power_up_token: a new (active) token where the brick is
spawn_power_up_token(G, brick) ==
    add_game_object([G EXCEPT !.pos[TokenObj] = G.pos[brick],
                              !.active[TokenObj] = TRUE,
                              !.drawable_active[TokenObj] = TRUE], TokenObj)

\* `random.random() < 0.5`; the model has one token at a time
TokenChoices == IF InSeq(entities, TokenObj) THEN {FALSE} ELSE BOOLEAN

\* Breakton.brick_collision: list.remove raises ValueError when the brick
\* is not in self.bricks
brick_collision(G, bs, brick, token) ==
    LET H == remove_game_object(
                 IF token THEN spawn_power_up_token(G, brick) ELSE G, brick)
    IN  IF InSeq(bs, brick)
        THEN [engine |-> H, bricks |-> ListRemove(bs, brick)]
        ELSE [engine |-> [H EXCEPT !.raised = TRUE], bricks |-> bs]

\* self.on_collision(other) of the Breakton classes: a brick hit by a ball
\* calls brick_collision, a ball only changes its velocity
on_collision(G, bs, self, other, token) ==
    IF IsBrick(self) /\ IsBall(other)
    THEN brick_collision(G, bs, self, token)
    ELSE [engine |-> G, bricks |-> bs]

Delivered_to(self, other, R) ==
    /\ calls' = Append(calls, Call("on_collision", self, other, 0,
                                   active[self], active[other]))
    /\ SetEngine(R.engine)
    /\ bricks' = R.bricks
    /\ api' = IF IsBrick(self) /\ IsBall(other)
              THEN [op |-> "remove", obj |-> self] ELSE NoCall
    /\ requested' = IF IsBrick(self) /\ IsBall(other)
                    THEN requested \cup {self} ELSE requested
    /\ spawned' = IF InSeq(R.engine.entities, TokenObj) /\ ~InSeq(entities, TokenObj)
                  THEN spawned \cup {TokenObj} ELSE spawned
    /\ UNCHANGED <<config, balls, killed, hit, keys, loop, idx, joined, ops>>

\* ob1.on_collision(ob2) in a Breakton sweep
BreaktonCollisionFirst ==
    /\ pc = "sweep"
    /\ cur # SweepDone
    /\ Collides(Engine, cur.ob1, cur.ob2)
    /\ \E token \in TokenChoices :
         LET R == on_collision(Engine, bricks, cur.ob1, cur.ob2, token)
         IN  /\ Delivered_to(cur.ob1, cur.ob2, R)
             /\ pc' = IF R.engine.raised THEN "crashed" ELSE "sweep2"
    /\ UNCHANGED cur

\* ob2.on_collision(ob1), then the loops advance
BreaktonCollisionSecond ==
    /\ pc = "sweep2"
    /\ \E token \in TokenChoices :
         LET R == on_collision(Engine, bricks, cur.ob2, cur.ob1, token)
         IN  /\ Delivered_to(cur.ob2, cur.ob1, R)
             /\ pc' = IF R.engine.raised THEN "crashed" ELSE "sweep"
             /\ cur' = IF R.engine.raised THEN cur
                       ELSE NextBody(R.engine, Advance(cur))

NextBreakton ==
    \/ Run
    \/ \E quit \in BOOLEAN : PollEvents(quit)
    \/ EarlyUpdate(Nothing)
    \/ BreaktonUpdate
    \/ BeginSweep
    \/ CollisionMiss
    \/ BreaktonCollisionFirst
    \/ BreaktonCollisionSecond
    \/ EndSweep
    \/ LateUpdate(Nothing)
    \/ Flush
    \/ DrawHook(Nothing)
    \/ Render
    \/ Tick

SpecBreakton == InitBreakton /\ [][NextBreakton]_vars

\* ------------------------------------------------- Breakton, the whole game
\* Breakton from its constructor on, seen along a column of the playfield:
\* every object has x = 0, the bricks are in the top row, the paddle is at
\* the bottom, and balls and tokens move up and down.  Balls are taken from
\* a pool of MaxBalls objects; an object of the pool that is in no registry,
\* not queued and not in self.balls stands for a new Ball.
MaxBalls == 3

PaddleObj == NumObjs + 2

BallPool == (NumObjs + 3)..(NumObjs + 2 + MaxBalls)

GameObjs == BreaktonObjs \cup {PaddleObj} \cup BallPool

\* playfield.top is 0
PlayfieldBottom == MaxCoord + ObjSize

\* spawn_initial_ball: `self.playfield.size.clone() * 0.5`
SpawnPos == Vector2(0, PlayfieldBottom \div 2)

\* start_game: rows of bricks, the paddle, one ball
InitGame ==
    /\ collisionMatrix = BreaktonMatrix
    /\ collision_matrix = PadMatrix(BreaktonMatrix)
    /\ collision_layer = [o \in GameObjs |->
                            IF o \in Objs THEN 2
                            ELSE IF o = TokenObj THEN 3
                            ELSE IF o = PaddleObj THEN 1
                            ELSE 0]
    /\ pos = [o \in GameObjs |->
                 IF o = PaddleObj THEN Vector2(0, PlayfieldBottom - ObjSize)
                 ELSE IF o \in BallPool THEN SpawnPos
                 ELSE Vector2(0, 0)]
    /\ size = [o \in GameObjs |-> Vector2(ObjSize, ObjSize)]
    /\ active = [o \in GameObjs |-> TRUE]
    /\ drawable_active = [o \in GameObjs |-> TRUE]
    /\ \E rows \in Objs :
         /\ bricks = [o \in 1..rows |-> o]
         /\ entities = [o \in 1..rows |-> o] \o <<PaddleObj, NumObjs + 3>>
         /\ drawables = [o \in 1..rows |-> o] \o <<PaddleObj, NumObjs + 3>>
         /\ entities_by_collision_layer =
              [l \in {0, 1, 2} |->
                  CASE l = 0 -> <<NumObjs + 3>>
                    [] l = 1 -> <<PaddleObj>>
                    [] l = 2 -> [o \in 1..rows |-> o]]
    /\ balls = <<NumObjs + 3>>
    /\ killed = <<>>
    /\ game_objects_to_remove = <<>>
    /\ loop = TRUE
    /\ pc = "idle"
    /\ idx = 1
    /\ cur = SweepDone
    /\ calls = <<>>
    /\ api = NoCall
    /\ requested = {}
    /\ spawned = {}
    /\ joined = {}
    /\ keys = 0
    /\ hit = {}
    /\ ops = 0

\* the game: the engine and the lists of Breakton
GameState ==
    [engine |-> Engine, bricks |-> bricks, balls |-> balls, killed |-> killed]

SetGame(S) ==
    /\ SetEngine(S.engine)
    /\ bricks' = S.bricks
    /\ balls' = S.balls
    /\ killed' = S.killed

FreeBalls(S) ==
    {o \in BallPool : /\ ~InSeq(S.engine.entities, o)
                      /\ ~InSeq(S.engine.game_objects_to_remove, o)
                      /\ ~InSeq(S.balls, o)}

NewBall(S) == CHOOSE o \in FreeBalls(S) : \A q \in FreeBalls(S) : o <= q

\* Breakton.spawn_ball: a new ball at p is registered and appended to
\* self.balls
spawn_ball(S, p) ==
    LET b == NewBall(S)
    IN  [S EXCEPT !.engine = add_game_object(
                                 [@ EXCEPT !.pos[b] = p, !.active[b] = TRUE,
                                           !.drawable_active[b] = TRUE], b),
                  !.balls = Append(@, b),
                  !.killed = SelectSeq(@, LAMBDA k : k # b)]

\* a ball_death that leaves self.balls empty
ball_death_no_respawn(S, ball) ==
    IF ~InSeq(S.balls, ball)
    THEN [S EXCEPT !.engine.raised = TRUE]
    ELSE [S EXCEPT !.balls = ListRemove(@, ball),
                   !.engine = remove_game_object(@, ball),
                   !.killed = Append(@, ball)]

\* Breakton.ball_death; list.remove raises ValueError for a ball that is
\* not in self.balls
ball_death(S, ball) ==
    IF ~InSeq(S.balls, ball)
    THEN [S EXCEPT !.engine.raised = TRUE]
    ELSE LET T == [S EXCEPT !.balls = ListRemove(@, ball),
                            !.engine = remove_game_object(@, ball),
                            !.killed = Append(@, ball)]
         IN  IF Len(T.balls) = 0 THEN spawn_ball(T, SpawnPos) ELSE T

\* Breakton.power_up_token_collision; `self.balls[0]` raises IndexError on
\* an empty list
power_up_token_collision(S, token) ==
    IF S.balls = <<>>
    THEN [S EXCEPT !.engine.raised = TRUE]
    ELSE LET p == S.engine.pos[S.balls[1]]
             T == spawn_ball(spawn_ball(S, p), p)
         IN  [T EXCEPT !.engine = remove_game_object(@, token)]

\* Ball.update seen along the column: one step up (stopped at the top of
\* the playfield) or one step down
ColumnMoves(o) ==
    IF IsBall(o)
    THEN {Vector2(pos[o].x, IF pos[o].y > 0 THEN pos[o].y - 1 ELSE 0),
          Vector2(pos[o].x, pos[o].y + 1)}
    ELSE IF o = TokenObj THEN {Fall(pos[o])}
    ELSE {pos[o]}

\* `if rect.bottom > self.playfield.bottom` of Ball.update
Dies(o, to) == IsBall(o) /\ to.y + size[o].y > PlayfieldBottom

\* entity.update(elapsedtime, keys) of the Breakton classes
update(S, o, to) ==
    LET T == [S EXCEPT !.engine.pos[o] = to]
    IN  IF Dies(o, to) THEN ball_death(T, o) ELSE T

\* one step of `for entity in self.entities` in a frame of the game
GameUpdate ==
    /\ pc = "update"
    /\ idx <= PassLength
    /\ LET o == entities[idx]
       IN  IF active[o]
           THEN \E to \in ColumnMoves(o) :
                  /\ Dies(o, to) /\ Len(balls) = 1 => FreeBalls(GameState) # {}
                  /\ LET T == update(GameState, o, to)
                     IN  /\ SetGame(T)
                         /\ pc' = IF T.engine.raised THEN "crashed" ELSE pc
                         /\ joined' = IF Len(T.engine.entities) > Len(entities)
                                      THEN joined \cup {Len(entities) + 1}
                                      ELSE joined
                  /\ api' = IF Dies(o, to) THEN [op |-> "remove", obj |-> o]
                            ELSE NoCall
                  /\ requested' = IF Dies(o, to) THEN requested \cup {o}
                                  ELSE requested
                  /\ calls' = Append(calls,
                         InputCall(Call("update", o, NoObj, idx, active[o], TRUE), keys))
           ELSE /\ UNCHANGED <<pos, active, drawable_active, entities, drawables,
                               entities_by_collision_layer,
                               game_objects_to_remove, bricks, balls, killed,
                               pc, joined, requested, calls>>
                /\ api' = NoCall
    /\ idx' = idx + 1
    /\ UNCHANGED <<collisionMatrix, collision_matrix, collision_layer, size,
                   hit, keys, loop, cur, spawned, ops>>

\* self.on_collision(other) of the Breakton classes: a brick hit by a ball
\* calls brick_collision, a token that meets the paddle calls
\* power_up_token_collision, balls only change their velocity and the
\* paddle does nothing
game_on_collision(S, self, other, token) ==
    IF IsBrick(self) /\ IsBall(other)
    THEN LET R == brick_collision(S.engine, S.bricks, self, token)
         IN  [S EXCEPT !.engine = R.engine, !.bricks = R.bricks]
    ELSE IF self = TokenObj /\ other = PaddleObj
    THEN power_up_token_collision(S, self)
    ELSE S

\* the pool has the two balls a power-up makes
PowerUpFits(self, other) ==
    self = TokenObj /\ other = PaddleObj =>
        Cardinality(FreeBalls(GameState)) >= 2

GameDelivered(self, other, T) ==
    /\ calls' = Append(calls, Call("on_collision", self, other, 0,
                                   active[self], active[other]))
    /\ SetGame(T)
    /\ api' = IF Len(T.engine.game_objects_to_remove) > Len(game_objects_to_remove)
              THEN [op |-> "remove", obj |-> self] ELSE NoCall
    /\ requested' = IF Len(T.engine.game_objects_to_remove) > Len(game_objects_to_remove)
                    THEN requested \cup {self} ELSE requested
    /\ spawned' = spawned \cup
                    {o \in GameObjs : Count(T.engine.entities, o) > Count(entities, o)}
    /\ UNCHANGED <<collisionMatrix, collision_matrix, collision_layer, size,
                   hit, keys, loop, idx, joined, ops>>

\* ob1.on_collision(ob2) in a sweep of the game
GameCollisionFirst ==
    /\ pc = "sweep"
    /\ cur # SweepDone
    /\ Collides(Engine, cur.ob1, cur.ob2)
    /\ PowerUpFits(cur.ob1, cur.ob2)
    /\ \E token \in TokenChoices :
         LET T == game_on_collision(GameState, cur.ob1, cur.ob2, token)
         IN  /\ GameDelivered(cur.ob1, cur.ob2, T)
             /\ pc' = IF T.engine.raised THEN "crashed" ELSE "sweep2"
    /\ UNCHANGED cur

\* ob2.on_collision(ob1), then the loops advance
GameCollisionSecond ==
    /\ pc = "sweep2"
    /\ PowerUpFits(cur.ob2, cur.ob1)
    /\ \E token \in TokenChoices :
         LET T == game_on_collision(GameState, cur.ob2, cur.ob1, token)
         IN  /\ GameDelivered(cur.ob2, cur.ob1, T)
             /\ pc' = IF T.engine.raised THEN "crashed" ELSE "sweep"
             /\ cur' = IF T.engine.raised THEN cur
                       ELSE NextBody(T.engine, Advance(cur))

NextGame ==
    \/ Run
    \/ \E quit \in BOOLEAN : PollEvents(quit)
    \/ EarlyUpdate(Nothing)
    \/ GameUpdate
    \/ BeginSweep
    \/ CollisionMiss
    \/ GameCollisionFirst
    \/ GameCollisionSecond
    \/ EndSweep
    \/ LateUpdate(Nothing)
    \/ Flush
    \/ DrawHook(Nothing)
    \/ Render
    \/ Tick

SpecGame == InitGame /\ [][NextGame]_vars

\* ------------------------------------------- the active flags on their own
\* `o.active = val` (the property setter calls the virtual set_active) for a
\* game object, as any code holding the object may do
SetActive(o, val) ==
    /\ pc = "idle"
    /\ SetEngine(set_active(Engine, o, val))
    /\ api' = [op |-> IF val THEN "activate" ELSE "deactivate", obj |-> o]
    /\ UNCHANGED <<config, balls, killed, bricks, hit, keys, loop, pc, idx, cur, calls, requested, spawned, joined, ops>>

\* `o.drawable.active = val`: a Drawable is a plain Component
DrawableSetActive(d, val) ==
    /\ pc = "idle"
    /\ drawable_active' = [drawable_active EXCEPT ![d] = val]
    /\ api' = NoCall
    /\ UNCHANGED <<config, balls, killed, bricks, hit, keys, pos, active, entities, drawables,
                   entities_by_collision_layer, game_objects_to_remove,
                   loop, pc, idx, cur, calls, requested, spawned, joined, ops>>

NextActive ==
    \/ \E o \in Objs : Construct(o)
    \/ \E o \in Objs : \E val \in BOOLEAN : SetActive(o, val)
    \/ \E d \in Objs : \E val \in BOOLEAN : DrawableSetActive(d, val)

SpecActive == Init /\ [][NextActive]_vars

\* ======================================================== the properties
Calls(kind) == {n \in 1..Len(calls) : calls[n].kind = kind}

OnCollisions(a, b) ==
    {n \in Calls("on_collision") : calls[n].self = a /\ calls[n].other = b}

Buckets == DOMAIN entities_by_collision_layer

InBucket(o, l) == l \in Buckets /\ InSeq(entities_by_collision_layer[l], o)

Absent(o) ==
    /\ ~InSeq(entities, o)
    /\ ~InSeq(drawables, o)
    /\ \A l \in Buckets : ~InBucket(o, l)

InFrame == pc \in {"early", "update", "sweep", "sweep2", "late", "flush",
                   "draw", "render", "tick"}

Rank(kind) ==
    CASE kind = "early_update" -> 1
      [] kind = "update" -> 2
      [] kind = "on_collision" -> 3
      [] kind = "late_update" -> 4
      [] kind = "flush" -> 5
      [] kind = "draw_hook" -> 6
      [] kind = "draw" -> 7

\* the steps a frame has completed when control is at pc, and the last step
\* it may have begun
Completed(p) ==
    CASE p = "early" -> {}
      [] p \in {"update", "sweep", "sweep2", "late"} -> {"early_update"}
      [] p = "flush" -> {"early_update", "late_update"}
      [] p = "draw" -> {"early_update", "late_update", "flush"}
      [] OTHER -> {"early_update", "late_update", "flush", "draw_hook"}

Begun(p) ==
    CASE p = "early" -> 0
      [] p = "update" -> 2
      [] p \in {"sweep", "sweep2", "late"} -> 3
      [] p = "flush" -> 4
      [] p = "draw" -> 5
      [] p = "render" -> 6
      [] OTHER -> 7

\* C1: in every frame the engine's calls come in the fixed order
\* early_update, the updates (entity-list order, entities inactive at their
\* turn skipped), the on_collision calls, late_update, the flush, the
\* draw() hook, the draws; a step is complete before the next one begins.
C1_FrameOrder ==
    InFrame =>
      /\ \A n \in 1..(Len(calls) - 1) :
            Rank(calls[n].kind) <= Rank(calls[n + 1].kind)
      /\ \A k \in {"early_update", "late_update", "flush", "draw_hook"} :
            Cardinality(Calls(k)) = IF k \in Completed(pc) THEN 1 ELSE 0
      /\ \A n \in 1..Len(calls) : Rank(calls[n].kind) <= Begun(pc)
      /\ \A n \in Calls("update") : calls[n].act
      /\ \A n, m \in Calls("update") : n < m => calls[n].at < calls[m].at
      /\ pc \in {"update", "sweep", "sweep2", "late", "flush"} =>
            /\ \A n \in Calls("update") :
                  calls[n].at < idx /\ entities[calls[n].at] = calls[n].self
            /\ \A k \in 1..(idx - 1) :
                  \/ \E n \in Calls("update") : calls[n].at = k
                  \/ ~active[entities[k]]

C1_Witness ==
    /\ pc = "tick"
    /\ Cardinality(Calls("update")) >= 2
    /\ Calls("on_collision") # {}
    /\ Calls("draw") # {}
    /\ requested # {}

\* C2: remove_game_object(o) deactivates o and its drawable and queues o,
\* and touches neither the entity list, the drawable list nor a bucket; so
\* while the update pass and the sweep iterate, the lists only grow at the
\* end.
RemoveIsDeferred ==
    \A o \in Objs :
        api' = [op |-> "remove", obj |-> o] /\ InFrame =>
            /\ entities' = entities
            /\ drawables' = drawables
            /\ entities_by_collision_layer' = entities_by_collision_layer
            /\ game_objects_to_remove' = Append(game_objects_to_remove, o)
            /\ active' = [active EXCEPT ![o] = FALSE]
            /\ drawable_active' = [drawable_active EXCEPT ![o] = FALSE]
            /\ pos' = pos

IterationIsSafe ==
    pc \in {"update", "sweep", "sweep2"} =>
        /\ IsPrefix(entities, entities')
        /\ \A l \in Buckets :
              /\ l \in DOMAIN entities_by_collision_layer'
              /\ IsPrefix(entities_by_collision_layer[l],
                          entities_by_collision_layer'[l])

C2_DeferredRemoval == [][RemoveIsDeferred /\ IterationIsSafe]_vars

C2_Witness ==
    /\ pc = "sweep2"
    /\ api = [op |-> "remove", obj |-> cur.ob1]
    /\ InSeq(entities, cur.ob1)
    /\ InBucket(cur.ob1, cur.i)
    /\ ~active[cur.ob1]

\* ---------------------------------------------------------------- C3
Layers == 0..(COLLISION_MATRIX_DEPTH - 1)

Copies(o) ==
    {Count(entities, o), Count(drawables, o)} \cup
    {Count(entities_by_collision_layer[l], o) : l \in Buckets}

\* C3 as claimed: whatever the adds and removes were, every object whose
\* removal was requested before the flush is absent from all registries
\* after it.
C3_Original == pc = "draw" => \A o \in requested : Absent(o)

FlushUnregisters ==
    pc = "flush" /\ pc' = "draw" =>
        \A o \in requested :
            (\A c \in Copies(o) : c <= 1) => Absent(o)'

StaysAbsent ==
    \A o \in Objs :
        Absent(o) /\ ~Absent(o)' => api' = [op |-> "add", obj |-> o]

\* C3 for objects registered once: an object whose removal was requested
\* before the flush and
\* that occurs at most once in each registry when the flush runs is absent
\* from the entity list, the drawable list and every bucket after the flush,
\* and an absent object stays absent until add_game_object is called on it.
C3_OnceRegistered == [][FlushUnregisters /\ StaysAbsent]_vars

C3_Witness ==
    /\ pc = "draw"
    /\ \E o \in requested :
          /\ Absent(o)
          /\ collision_layer[o] >= 0
          /\ \E n \in Calls("update") : calls[n].self = o

\* ------------------------------------------------------- C4 .. C10
Colliders(a, b) == intersects(get_collider(Engine, a), get_collider(Engine, b))

\* a and b are in the buckets of their layers since before the sweep began
InSweep(a, b) ==
    /\ a # b
    /\ collision_layer[a] \in Layers /\ collision_layer[b] \in Layers
    /\ InBucket(a, collision_layer[a]) /\ InBucket(b, collision_layer[b])
    /\ a \notin spawned /\ b \notin spawned

Once(o) == Count(entities_by_collision_layer[collision_layer[o]], o) = 1

Delivered(a, b) == OnCollisions(a, b) # {} /\ OnCollisions(b, a) # {}

C5_Original ==
    InFrame =>
        \A n \in Calls("update") \cup Calls("draw") \cup Calls("on_collision") :
            calls[n].act /\ calls[n].oact

\* C6: for a in layer i and b in layer j, i < j, each once in its bucket,
\* (i, j) enabled and the colliders intersecting: a.on_collision(b) and
\* b.on_collision(a) are each called at most once in the frame, b's call
\* right after a's, and exactly once when both were in their buckets before
\* the sweep.
C6_OncePerPair ==
    pc \in {"sweep", "sweep2", "late"} =>
        \A a, b \in Objs :
            /\ collision_layer[a] \in Layers /\ collision_layer[b] \in Layers
            /\ collision_layer[a] < collision_layer[b]
            /\ InBucket(a, collision_layer[a]) /\ InBucket(b, collision_layer[b])
            /\ Once(a) /\ Once(b)
            /\ collision_enabled_between_layers(collision_layer[a], collision_layer[b])
            /\ Colliders(a, b)
            => /\ Cardinality(OnCollisions(a, b)) <= 1
               /\ Cardinality(OnCollisions(b, a)) <= 1
               /\ \A n \in OnCollisions(a, b) :
                     IF n = Len(calls) THEN pc = "sweep2"
                     ELSE n + 1 \in OnCollisions(b, a)
               /\ \A m \in OnCollisions(b, a) : m - 1 \in OnCollisions(a, b)
               /\ pc = "late" /\ a \notin spawned /\ b \notin spawned =>
                     /\ Cardinality(OnCollisions(a, b)) = 1
                     /\ Cardinality(OnCollisions(b, a)) = 1

C6_Witness ==
    /\ pc = "late"
    /\ \E a, b \in Objs :
          /\ InSweep(a, b) /\ Once(a) /\ Once(b)
          /\ collision_layer[a] < collision_layer[b]
          /\ Colliders(a, b)
          /\ Cardinality(OnCollisions(a, b)) = 1
          /\ Cardinality(OnCollisions(b, a)) = 1
          /\ Cardinality(Calls("on_collision")) > 2

\* C7 as claimed: in a self-colliding layer each direction of an
\* intersecting pair fires exactly once per frame.
C7_Original ==
    pc = "late" =>
        \A a, b \in Objs :
            /\ InSweep(a, b) /\ Once(a) /\ Once(b)
            /\ collision_layer[a] = collision_layer[b]
            /\ collision_enabled_between_layers(collision_layer[a], collision_layer[a])
            /\ Colliders(a, b)
            => /\ Cardinality(OnCollisions(a, b)) = 1
               /\ Cardinality(OnCollisions(b, a)) = 1

Min(x, y) == IF x <= y THEN x ELSE y
Max(x, y) == IF x <= y THEN y ELSE x

\* C8: no on_collision is ever called between an object of layer i and an
\* object of layer j, i <= j, when bit j of matrix row i is clear.
C8_DisabledPairsSilent ==
    InFrame =>
        \A n \in Calls("on_collision") :
            LET i == Min(collision_layer[calls[n].self], collision_layer[calls[n].other])
                j == Max(collision_layer[calls[n].self], collision_layer[calls[n].other])
            IN  /\ i \in Layers /\ j \in Layers
                /\ BitAnd(collision_matrix[i + 1], 2 ^ j) # 0

C8_Witness ==
    /\ pc = "late"
    /\ Calls("on_collision") # {}
    /\ \E a, b \in Objs :
          /\ InSweep(a, b) /\ Colliders(a, b)
          /\ collision_layer[a] <= collision_layer[b]
          /\ BitAnd(collision_matrix[collision_layer[a] + 1], 2 ^ collision_layer[b]) = 0
          /\ OnCollisions(a, b) = {} /\ OnCollisions(b, a) = {}

\* C9 as claimed: bit j of row i, in either order of i and j, makes the
\* intersecting objects of layers i and j receive callbacks.
C9_Original ==
    pc = "late" =>
        \A a, b \in Objs :
            /\ InSweep(a, b) /\ Colliders(a, b)
            /\ BitAnd(collision_matrix[collision_layer[a] + 1], 2 ^ collision_layer[b]) # 0
            => Delivered(a, b)

\* C9 (amended): for i <= j, bit j of row i makes the intersecting objects
\* of layers i and j receive callbacks.
C9_Amended ==
    pc = "late" =>
        \A a, b \in Objs :
            /\ InSweep(a, b) /\ Colliders(a, b)
            /\ collision_layer[a] <= collision_layer[b]
            /\ BitAnd(collision_matrix[collision_layer[a] + 1], 2 ^ collision_layer[b]) # 0
            => Delivered(a, b)

\* a pair enabled by the bit of the lower layer's row alone
C9_Witness ==
    /\ pc = "late"
    /\ \E a, b \in Objs :
          /\ InSweep(a, b) /\ Colliders(a, b)
          /\ collision_layer[a] < collision_layer[b]
          /\ BitAnd(collision_matrix[collision_layer[a] + 1], 2 ^ collision_layer[b]) # 0
          /\ BitAnd(collision_matrix[collision_layer[b] + 1], 2 ^ collision_layer[a]) = 0
          /\ Delivered(a, b)

\* C10: an object of layer -1 is in no bucket, is never called on_collision
\* and is never the argument of an on_collision.
C10_NoLayerNoCollision ==
    \A o \in Objs :
        collision_layer[o] = 0 - 1 =>
            /\ \A l \in Buckets : ~InBucket(o, l)
            /\ InFrame =>
                  \A n \in Calls("on_collision") :
                      calls[n].self # o /\ calls[n].other # o

C10_Witness ==
    /\ pc = "late"
    /\ Calls("on_collision") # {}
    /\ \E o, b \in Objs :
          /\ collision_layer[o] = 0 - 1
          /\ InSeq(entities, o) /\ InSeq(entities, b)
          /\ collision_layer[b] \in Layers
          /\ Colliders(o, b)
          /\ \E n \in Calls("on_collision") : calls[n].self = b

\* --------------------------------------------------------------- C11
Zeros(n) == [k \in 1..n |-> 0]

Rows == Len(collisionMatrix)

\* C11: an engine given k < 8 rows runs with exactly the matrix of the
\* same k rows followed by 8 - k zero rows (which padding leaves as it is),
\* so both engines make the same on_collision calls; every row i >= k
\* enables nothing, and no on_collision is between two layers >= k.
C11_PaddingEquivalence ==
    Rows < COLLISION_MATRIX_DEPTH =>
        /\ collision_matrix = collisionMatrix \o Zeros(COLLISION_MATRIX_DEPTH - Rows)
        /\ PadMatrix(collisionMatrix \o Zeros(COLLISION_MATRIX_DEPTH - Rows)) = collision_matrix
        /\ \A i \in Rows..(COLLISION_MATRIX_DEPTH - 1) : \A j \in Layers :
              ~collision_enabled_between_layers(i, j)
        /\ InFrame =>
              \A n \in Calls("on_collision") :
                  Min(collision_layer[calls[n].self], collision_layer[calls[n].other]) < Rows

C11_Witness ==
    /\ pc = "late"
    /\ Rows < COLLISION_MATRIX_DEPTH
    /\ Calls("on_collision") # {}
    /\ \E o \in Objs :
          /\ collision_layer[o] >= Rows
          /\ InBucket(o, collision_layer[o])
          /\ \E n \in Calls("on_collision") : calls[n].self = o

\* --------------------------------------------------------------- C12
\* C12 as claimed: with a 2-row matrix no object of a layer 2..7 is the
\* receiver or the argument of an on_collision.
C12_Original ==
    Rows = 2 /\ InFrame =>
        \A n \in Calls("on_collision") :
            collision_layer[calls[n].self] < 2 /\ collision_layer[calls[n].other] < 2

\* a and b are the two objects of an on_collision; if a is of a layer 2..7
\* then b is of layer 0 or 1 and the row of b's layer has the bit of a's
Partnered(a, b) ==
    collision_layer[a] >= 2 =>
        /\ collision_layer[b] \in {0, 1}
        /\ BitAnd(collision_matrix[collision_layer[b] + 1], 2 ^ collision_layer[a]) # 0

\* C12 (amended): with a 2-row matrix no on_collision is between two objects
\* of layers 2..7; an object of a layer j in 2..7 collides only with objects
\* of a layer i in {0, 1} whose row has bit j set.
C12_Amended ==
    Rows = 2 /\ InFrame =>
        \A n \in Calls("on_collision") :
            /\ Partnered(calls[n].self, calls[n].other)
            /\ Partnered(calls[n].other, calls[n].self)

\* two overlapping objects of layers 2..7 went through a sweep that made
\* calls, one of them to an object of such a layer
C12_Witness ==
    /\ pc = "late"
    /\ Rows = 2
    /\ \E n \in Calls("on_collision") : collision_layer[calls[n].self] >= 2
    /\ \E a, b \in Objs :
          /\ InSweep(a, b) /\ Colliders(a, b)
          /\ collision_layer[a] >= 2 /\ collision_layer[b] >= 2

\* --------------------------------------------------------------- C13
IsDraw(c) == c.kind = "draw"

\* the draw calls of the log, in the order they were made
Drawn(log) == SelectSeq(log, IsDraw)

TimesDrawn(log, d) == Cardinality({n \in 1..Len(log) : IsDraw(log[n]) /\ log[n].self = d})

RenderDrawsActiveByY ==
    pc = "render" /\ pc' = "tick" =>
        /\ calls' = calls \o Drawn(calls')
        /\ Drawn(calls) = <<>>
        /\ \A d \in Objs :
              TimesDrawn(calls', d) =
                  IF drawable_active[d] THEN Count(drawables, d) ELSE 0
        /\ \A n, m \in 1..Len(calls') :
              n < m /\ IsDraw(calls'[n]) /\ IsDraw(calls'[m]) =>
                  pos[calls'[n].self].y <= pos[calls'[m].self].y
        /\ pos' = pos /\ drawable_active' = drawable_active

\* C13: the render step calls draw once for every entry of the drawable list
\* whose drawable is active, for no other drawable, and in non-decreasing
\* order of pos.y, whatever the order of the list was.
C13_DrawOrder == [][RenderDrawsActiveByY]_vars

\* drawables drawn in another order than they were registered in, while an
\* inactive drawable is registered and not drawn
C13_Witness ==
    /\ pc = "tick"
    /\ \E d \in Objs : InSeq(drawables, d) /\ ~drawable_active[d]
    /\ \E n, m \in Calls("draw") :
          /\ n < m
          /\ IndexOf(entities, calls[n].self, 1) > IndexOf(entities, calls[m].self, 1)
          /\ pos[calls[n].self].y < pos[calls[m].self].y

\* --------------------------------------------------------------- C14
SetActivePropagates ==
    \A o \in Objs : \A val \in BOOLEAN :
        api' = [op |-> IF val THEN "activate" ELSE "deactivate", obj |-> o] =>
            /\ active'[o] = val
            /\ drawable_active'[o] = val
            /\ \A p \in Objs \ {o} :
                  active'[p] = active[p] /\ drawable_active'[p] = drawable_active[p]

\* C14: setting a game object's active flag sets the flag of its drawable
\* to the same value in the same step, whatever the drawable's flag was,
\* and touches no other component.
C14_ActivePropagates == [][SetActivePropagates]_vars

\* an object was set active again, with its drawable, while another
\* object's drawable has a flag of its own
C14_Witness ==
    \E o, p \in Objs :
        /\ api = [op |-> "activate", obj |-> o]
        /\ active[o] /\ drawable_active[o]
        /\ InSeq(entities, o)
        /\ ~active[p] /\ drawable_active[p]

\* --------------------------------------------------------------- C15
AddRegisters ==
    \A o \in Objs :
        api' = [op |-> "add", obj |-> o] =>
            /\ entities' = Append(entities, o)
            /\ drawables' = Append(drawables, o)
            /\ IF collision_layer[o] >= 0
               THEN /\ DOMAIN entities_by_collision_layer' = Buckets \cup {collision_layer[o]}
                    /\ entities_by_collision_layer'[collision_layer[o]] =
                          Append(get_entities_by_collision_layer(Engine, collision_layer[o]), o)
                    /\ \A l \in Buckets \ {collision_layer[o]} :
                          entities_by_collision_layer'[l] = entities_by_collision_layer[l]
               ELSE entities_by_collision_layer' = entities_by_collision_layer
            /\ game_objects_to_remove' = game_objects_to_remove
            /\ active' = active /\ drawable_active' = drawable_active
            /\ pos' = pos

\* C15: add_game_object(o) appends o to the entity list and to the drawable
\* list, appends o to the bucket of its layer (made if absent) exactly when
\* the layer is >= 0, and changes no other bucket, not the queue, no flag
\* and no position.
C15_AddAppends == [][AddRegisters]_vars

\* a handler added an object during a frame to a bucket that had members
C15_Witness ==
    \E o \in Objs :
        /\ api = [op |-> "add", obj |-> o]
        /\ InFrame
        /\ collision_layer[o] >= 0
        /\ entities[Len(entities)] = o
        /\ drawables[Len(drawables)] = o
        /\ LET b == entities_by_collision_layer[collision_layer[o]]
           IN  Len(b) >= 2 /\ b[Len(b)] = o /\ b[1] # o

\* --------------------------------------------------------------- C16
UpdatesAt(k) == {n \in Calls("update") : calls[n].at = k /\ calls[n].self = entities[k]}

\* C16: when the update pass is over, every entity that an update appended
\* to the entity list during the pass and that is active has had its own
\* update in that pass, after the updates of all entries before it.
C16_AddedInPassIsUpdated ==
    pc \in {"sweep", "sweep2", "late", "flush"} =>
        \A k \in joined :
            /\ k <= Len(entities)
            /\ active[entities[k]] =>
                  /\ UpdatesAt(k) # {}
                  /\ \A n \in UpdatesAt(k) : \A m \in Calls("update") :
                        calls[m].at < k => m < n

\* an update added an object that was not registered, and the object's
\* update came last in the pass
C16_Witness ==
    /\ pc = "sweep"
    /\ \E k \in joined :
          /\ k = Len(entities)
          /\ active[entities[k]]
          /\ Count(entities, entities[k]) = 1
          /\ Cardinality(Calls("update")) >= 3
          /\ UpdatesAt(k) # {}

\* --------------------------------------------------------------- C17
\* C17 as claimed: an object that was not registered and is added by an
\* on_collision handler is neither the receiver nor the argument of an
\* on_collision in the sweep that added it.
C17_Original ==
    pc \in {"sweep", "sweep2", "late"} =>
        \A o \in spawned :
            Count(entities, o) = 1 =>
                \A n \in Calls("on_collision") :
                    calls[n].self # o /\ calls[n].other # o

\* --------------------------------------------------------------- C18
\* C18 as claimed: an object whose layer is neither -1 nor in 0..7 is never
\* registered and kept: by the end of the first sweep after its
\* registration the engine has failed.
C18_Original ==
    pc = "late" =>
        \A o \in Objs :
            InSeq(entities, o) => collision_layer[o] \in Layers \cup {0 - 1}

\* --------------------------------------------------------------- C19
\* the removal queue holds an object that is in no registry (the registries
\* only grow between a request and the flush, so it was in none when its
\* removal was requested)
UnregisteredQueued ==
    \E k \in 1..Len(game_objects_to_remove) : Absent(game_objects_to_remove[k])

\* C19 as claimed: the request to remove an object that is not registered
\* does not pass silently: the flush that finds it in the queue raises.
C19_Original == [][pc = "flush" /\ UnregisteredQueued => pc' = "crashed"]_vars

\* --------------------------------------------------------------- C20
\* C20 as claimed: no object occurs twice in the entity list, in the
\* drawable list or in a bucket.
C20_Original == \A o \in Objs : \A c \in Copies(o) : c <= 1

\* ------------------------------------------------------ Rect.intersects
\* A specification of Rect alone: the drawables of two objects get any
\* position of the playfield and any size from 0 to ObjSize, and
\* Rect.intersects is called on their rects in either order.
RectObjs == {1, 2}

Coords == 0..MaxCoord

Sizes == 0..ObjSize

InitRect ==
    /\ collisionMatrix = <<>>
    /\ collision_matrix = PadMatrix(<<>>)
    /\ collision_layer = [o \in Objs |-> 0 - 1]
    /\ \E p \in [RectObjs -> {Vector2(x, y) : x \in Coords, y \in Coords}] :
         pos = [o \in Objs |-> IF o \in RectObjs THEN p[o] ELSE Vector2(0, 0)]
    /\ \E sz \in [RectObjs -> {Vector2(w, h) : w \in Sizes, h \in Sizes}] :
         size = [o \in Objs |-> IF o \in RectObjs THEN sz[o] ELSE Vector2(0, 0)]
    /\ active = [o \in Objs |-> TRUE]
    /\ drawable_active = [o \in Objs |-> TRUE]
    /\ entities = <<>>
    /\ drawables = <<>>
    /\ entities_by_collision_layer = [l \in {} |-> <<>>]
    /\ game_objects_to_remove = <<>>
    /\ loop = TRUE
    /\ pc = "idle"
    /\ idx = 1
    /\ cur = SweepDone
    /\ calls = <<>>
    /\ api = NoCall
    /\ requested = {}
    /\ spawned = {}
    /\ joined = {}
    /\ keys = 0
    /\ hit = {}
    /\ bricks = <<>>
    /\ balls = <<>>
    /\ killed = <<>>
    /\ ops = 0

get_rect(o) == Rect(pos[o], size[o])

\* get_rect(a).intersects(get_rect(b))
RectIntersects(a, b) ==
    /\ a # b
    /\ \A h \in hit : ~(h.self = a /\ h.other = b)
    /\ hit' = hit \cup {[self |-> a, other |-> b,
                         result |-> intersects(get_rect(a), get_rect(b))]}
    /\ UNCHANGED <<config, balls, killed, bricks, pos, active, drawable_active, entities, drawables,
                   entities_by_collision_layer, game_objects_to_remove,
                   loop, pc, idx, cur, calls, api, requested, spawned, joined,
                   keys, ops>>

NextRect == \E a, b \in RectObjs : RectIntersects(a, b)

SpecRect == InitRect /\ [][NextRect]_vars

\* --------------------------------------------------------------- C23
\* the unit cells of the grid a rect covers
Cells(r) ==
    {<<x, y>> \in (0..(MaxCoord + ObjSize)) \X (0..(MaxCoord + ObjSize)) :
        /\ r.pos.x <= x /\ x + 1 <= r.pos.x + r.size.x
        /\ r.pos.y <= y /\ y + 1 <= r.pos.y + r.size.y}

InteriorsOverlap(A, B) == Cells(A) \cap Cells(B) # {}

\* an edge of one rect lies on the line of the opposite edge of the other
EdgeOnEdge(A, B) ==
    \/ A.pos.x + A.size.x = B.pos.x
    \/ B.pos.x + B.size.x = A.pos.x
    \/ A.pos.y + A.size.y = B.pos.y
    \/ B.pos.y + B.size.y = A.pos.y

StrictOverlap(A, B) ==
    /\ A.pos.x < B.pos.x + B.size.x
    /\ A.pos.x + A.size.x > B.pos.x
    /\ A.pos.y < B.pos.y + B.size.y
    /\ A.pos.y + A.size.y > B.pos.y

\* C23: on every pair of rects of the grid with sizes >= 0, intersects
\* returns the strict four-inequality test: FALSE when an edge of one lies
\* on the opposite edge of the other, TRUE when the interiors share a cell.
C23_StrictOverlap ==
    \A h \in hit :
        LET A == get_rect(h.self)
            B == get_rect(h.other)
        IN  /\ h.result = StrictOverlap(A, B)
            /\ EdgeOnEdge(A, B) => ~h.result
            /\ InteriorsOverlap(A, B) => h.result

\* intersects returned FALSE for two rects of positive size whose only
\* common points are on A's right edge, which is B's left edge
C23_Witness ==
    \E h \in hit :
        LET A == get_rect(h.self)
            B == get_rect(h.other)
        IN  /\ A.size.x > 0 /\ A.size.y > 0 /\ B.size.x > 0 /\ B.size.y > 0
            /\ right(A) = left(B)
            /\ top(A) < bottom(B) /\ bottom(A) > top(B)
            /\ ~h.result

\* --------------------------------------------------------------- C24
\* C24: A.intersects(B) and B.intersects(A) return the same value.
C24_Symmetric ==
    \A h, g \in hit :
        h.self = g.other /\ h.other = g.self => h.result = g.result

\* both calls were made on two rects of different sizes that overlap, and
\* both returned TRUE
C24_Witness ==
    \E h, g \in hit :
        /\ h.self = g.other /\ h.other = g.self
        /\ size[h.self] # size[h.other]
        /\ pos[h.self] # pos[h.other]
        /\ h.result /\ g.result

\* --------------------------------------------------------------- C21
FramePhases == {"early", "update", "sweep", "sweep2", "late", "flush",
                "draw", "render", "tick"}

FrameIsWhole ==
    /\ \A k \in {"early_update", "late_update", "flush", "draw_hook"} :
          Cardinality(Calls(k)) = 1
    /\ cur = SweepDone

QuitFinishesFrame ==
    /\ pc' = "stopped" => pc = "tick" /\ ~loop /\ FrameIsWhole
    /\ pc = "tick" /\ ~loop => pc' = "stopped"
    /\ ~loop => ~loop'
    /\ ~loop /\ pc \in FramePhases \ {"tick"} =>
          /\ pc' \in FramePhases \cup {"crashed"}
          /\ pc' = "crashed" => pc = "flush" /\ FlushQueue(Engine).raised
    /\ pc = "stopped" => calls' = calls

\* C21: after a QUIT was read at the top of an iteration the frame goes on
\* phase by phase to its end (only the KeyError of a flush ends it early, as
\* in any frame), run is left only after the draw of that frame, no other
\* frame starts and no call is made after the exit.
C21_QuitFinishesFrame == [][QuitFinishesFrame]_vars

\* run has ended, and the frame in which the QUIT was read made updates,
\* collision callbacks and draws
C21_Witness ==
    /\ pc = "stopped"
    /\ Calls("update") # {}
    /\ Calls("on_collision") # {}
    /\ Calls("draw") # {}
    /\ FrameIsWhole

\* --------------------------------------------------------------- C22
InputKinds == {"early_update", "update", "late_update"}

\* C22: in a frame the keyboard is read once, and early_update, every update
\* (those of entities added during the pass too) and late_update are handed
\* that one snapshot.
C22_OneSnapshot ==
    /\ keys <= 1
    /\ \A k \in 1..Len(calls) :
          calls[k].kind \in InputKinds => calls[k].keys = 1 /\ keys = 1

\* a frame whose late_update ran after the update of an entity that was
\* added during the pass, and after at least two updates
C22_Witness ==
    /\ Calls("late_update") # {}
    /\ Cardinality(Calls("update")) >= 2
    /\ \E n \in Calls("update") : calls[n].at \in joined

\* --------------------------------------------------------------- C25
Less(n, m) == IF n > m THEN n - m ELSE 0

\* every entry of the queue took one occurrence of its object, if there was
\* one, out of the entity list and out of the drawable list
QueueProcessed ==
    \A o \in Objs :
        /\ Count(entities', o) =
             Less(Count(entities, o), Count(game_objects_to_remove, o))
        /\ Count(drawables', o) =
             Less(Count(drawables, o), Count(game_objects_to_remove, o))

FlushEmptiesQueue ==
    /\ pc = "flush" /\ pc' # "crashed" =>
          game_objects_to_remove' = <<>> /\ QueueProcessed
    /\ pc' = "draw" => game_objects_to_remove' = <<>>

\* C25: a flush that runs to its end has processed every entry of the queue
\* and leaves the queue empty, so the draw phase of every frame starts with
\* an empty queue and no entry is processed by a later flush again.
C25_FlushEmptiesQueue == [][FlushEmptiesQueue]_vars

\* the flush of a frame in which a removal was requested has run, the
\* requested object is out of the entity list and the queue is empty
C25_Witness ==
    /\ pc = "draw"
    /\ \E o \in requested : ~InSeq(entities, o) /\ api.op = "none"
    /\ game_objects_to_remove = <<>>
    /\ Calls("flush") # {}

\* --------------------------------------------------------------- C26
\* C26: no on_collision call of a frame has the object it is called on as
\* its argument, whatever the matrix and however often the object is in its
\* bucket.
C26_NoSelfCollision ==
    \A n \in Calls("on_collision") : calls[n].self # calls[n].other

\* a finished sweep that delivered collisions in a layer that collides with
\* itself and whose bucket holds one object twice
C26_Witness ==
    /\ pc = "late"
    /\ Calls("on_collision") # {}
    /\ \E l \in Buckets : \E o \in Objs :
          /\ collision_enabled_between_layers(l, l)
          /\ Count(entities_by_collision_layer[l], o) >= 2
          /\ \E n \in Calls("on_collision") : calls[n].self = o

\* --------------------------------------------------------------- C27
Queued(o) == InSeq(game_objects_to_remove, o)

\* no entry of o leaves the entity list, the drawable list or a bucket
KeepsEntries(o) ==
    /\ Count(entities', o) >= Count(entities, o)
    /\ Count(drawables', o) >= Count(drawables, o)
    /\ \A l \in Buckets :
          /\ l \in DOMAIN entities_by_collision_layer'
          /\ Count(entities_by_collision_layer'[l], o) >=
                Count(entities_by_collision_layer[l], o)

RemovedInDrawWaits ==
    /\ pc = "draw" /\ api'.op = "remove" =>
          /\ ~active'[api'.obj] /\ ~drawable_active'[api'.obj]
          /\ InSeq(game_objects_to_remove', api'.obj)
          /\ entities' = entities /\ drawables' = drawables
          /\ entities_by_collision_layer' = entities_by_collision_layer
    /\ pc = "render" =>
          \A o \in Objs : Queued(o) => TimesDrawn(calls', o) = 0
    /\ pc \in FramePhases \cup {"poll"} /\ pc # "flush" =>
          \A o \in Objs : Queued(o) =>
              KeepsEntries(o) /\ InSeq(game_objects_to_remove', o) /\ ~active'[o]
    /\ pc = "flush" /\ pc' # "crashed" =>
          /\ QueueProcessed
          /\ \A o \in Objs : Queued(o) /\ Copies(o) \subseteq {0, 1} => Absent(o)'

\* C27: remove_game_object called from the draw() hook deactivates the
\* object and its drawable in that step and changes no registry; the render
\* of that frame does not draw it; no step of the rest of the frame or of
\* the next frame's update pass and sweep takes an entry of it out of a
\* registry; the next flush takes it out (one entry for each request).
C27_RemovedInDrawWaits == [][RemovedInDrawWaits]_vars

\* the frame after a removal from draw(): the flush is about to run, no
\* removal was requested in this frame, and the queued object is still an
\* entity, a drawable and in its bucket, and got a collision in the sweep
C27_Witness ==
    /\ pc = "flush"
    /\ requested = {}
    /\ \E o \in Objs :
          /\ Queued(o)
          /\ InSeq(entities, o) /\ InSeq(drawables, o)
          /\ InBucket(o, collision_layer[o])
          /\ \E n \in Calls("on_collision") : calls[n].self = o

\* --------------------------------------------------------------- C28
InOwnBucket(o) == InBucket(o, collision_layer[o])

\* C28: in every state between two steps of the program an object is in
\* the entity list iff its drawable is in the drawable list, an object of a
\* layer >= 0 is in the entity list iff it is in the bucket of its layer,
\* and no object is in a bucket of another layer.  (The three registries
\* change together, so this holds however often an object was added.)
C28_RegistriesAgree ==
    \A o \in Objs :
        /\ InSeq(entities, o) <=> InSeq(drawables, o)
        /\ collision_layer[o] >= 0 => (InSeq(entities, o) <=> InOwnBucket(o))
        /\ \A l \in Buckets : l # collision_layer[o] => ~InBucket(o, l)

\* every object was added at most once; a flush has unregistered an object
\* of a layer >= 0 and another object of a layer >= 0 is still registered
C28_Witness ==
    /\ pc = "draw"
    /\ \A o \in Objs : Copies(o) \subseteq {0, 1}
    /\ \E o \in requested : \E q \in Objs \ {o} :
          /\ collision_layer[o] >= 0 /\ Absent(o)
          /\ collision_layer[o] \in Buckets
          /\ collision_layer[q] >= 0 /\ InSeq(entities, q) /\ InOwnBucket(q)

\* --------------------------------------------------------------- C29
RECURSIVE Dedup(_)
\* the queue with the first request for every object only
Dedup(q) ==
    IF q = <<>> THEN <<>>
    ELSE LET r == Dedup(SubSeq(q, 1, Len(q) - 1))
         IN  IF InSeq(r, q[Len(q)]) THEN r ELSE Append(r, q[Len(q)])

\* the flush of the queue in which every object was requested once
FlushedOnce == FlushQueue([Engine EXCEPT !.game_objects_to_remove = Dedup(@)])

RequestedAgain(o) == InSeq(entities, o) /\ Count(game_objects_to_remove, o) >= 2

SameAsOnce ==
    /\ pc' # "crashed"
    /\ entities' = FlushedOnce.entities
    /\ drawables' = FlushedOnce.drawables
    /\ entities_by_collision_layer' = FlushedOnce.entities_by_collision_layer
    /\ game_objects_to_remove' = <<>>

\* C29 as claimed: a flush whose queue holds a registered object more than
\* once raises nothing and leaves the lists, the buckets and the queue as
\* the flush of one request for each object would.
C29_Original ==
    [][pc = "flush" /\ (\E o \in Objs : RequestedAgain(o)) => SameAsOnce]_vars

\* the same for objects that were added once
C29_OnceRegistered ==
    [][pc = "flush" /\ (\E o \in Objs : RequestedAgain(o))
         /\ (\A o \in Objs : Copies(o) \subseteq {0, 1}) => SameAsOnce]_vars

\* a flush is about to run on two requests for an object that was added
\* once, while another object is registered
C29_OnceRegistered_Witness ==
    /\ pc = "flush"
    /\ \A o \in Objs : Copies(o) \subseteq {0, 1}
    /\ \E o \in Objs : \E q \in Objs \ {o} :
          RequestedAgain(o) /\ InSeq(entities, q)

\* --------------------------------------------------------------- C30
\* the brick_collision calls of the frame for one brick
BrickCollisions(brick) ==
    {n \in Calls("on_collision") :
        calls[n].self = brick /\ IsBall(calls[n].other)}

\* C30 as claimed: in every frame brick_collision runs at most once for a
\* brick, self.bricks.remove does not fail, and no brick is in the removal
\* queue twice, however many balls overlap the brick.
C30_Original ==
    /\ pc # "crashed"
    /\ \A o \in BreaktonObjs : IsBrick(o) =>
          /\ Cardinality(BrickCollisions(o)) <= 1
          /\ Count(game_objects_to_remove, o) <= 1

\* --------------------------------------------------------------- C31
\* C31: from the end of the constructor on, after every step of the game
\* self.balls is not empty (so self.balls[0] can be read), every ball in it
\* is active and is in the entity list, the drawable list and bucket 0, and
\* ball_death was called at most once for every ball.
C31_BallsAlive ==
    /\ balls # <<>>
    /\ \A k \in 1..Len(balls) :
          /\ active[balls[k]]
          /\ InSeq(entities, balls[k])
          /\ InSeq(drawables, balls[k])
          /\ InBucket(balls[k], 0)
    /\ \A o \in BallPool : Count(killed, o) <= 1

\* the only ball fell out of the playfield in this frame's update pass:
\* ball_death was called for it, it is inactive and queued, and the ball
\* spawned in its place is the one ball of self.balls
C31_Witness ==
    /\ pc \in {"update", "sweep"}
    /\ Len(balls) = 1
    /\ \E b \in BallPool \ {balls[1]} :
          /\ killed # <<>> /\ killed[Len(killed)] = b
          /\ ~active[b] /\ Queued(b)
          /\ InSeq(entities, b)
    /\ joined # {}

====
